---- MODULE Spec2Model ----
(***************************************************************************)
(* A model of the agentic RAG backend (src/backend): the text chunker, the *)
(* reasoning stage, the orchestrating endpoint, the streaming synthesizer  *)
(* and the retrieval tool.  Text is a sequence of one-character strings;   *)
(* Python's 0-based indices are kept and translated where a sequence is    *)
(* read.  A Python exception is a value: a record naming its class.        *)
(***************************************************************************)
EXTENDS Integers, Sequences, FiniteSets, TLC

VARIABLES
    \* VectorStoreManager._chunk_text (tools.py:25-49)
    chunk_pc,      \* "idle" | "call" | "while" | "done"
    input,         \* the text argument as passed
    text,          \* the local text (newline-collapsed once the loop is entered)
    chunk_size,    \* the chunk_size argument
    overlap,       \* the overlap argument
    start,         \* the cursor
    chunks,        \* the list being built
    windows,       \* history: the <<start, end>> of every slice appended as a chunk
    iters,         \* history: iterations of the while-loop run so far
    \* the arguments chat_stream passes on (main.py:65-95), which are the
    \* parameters of generate_response_stream (synthesizer.py:16-20)
    user_query,
    chat_history,
    intent,
    tool_output,
    \* ResponseSynthesizer.generate_response_stream (synthesizer.py:16-96)
    synth_pc,            \* "idle" | "call" | "built" | "open" | "ended" | "raised"
    system_instruction,  \* which of the two system prompts was chosen
    final_prompt,        \* the user prompt, as the tuple of its parts
    messages,            \* the message payload
    conn_open,           \* the streaming connection is inside its async-with
    lines,               \* history: the lines aiter_lines has delivered so far
    yielded,             \* history: the tokens the generator has yielded so far
    synth_exc,           \* the exception that left the generator, or "none"
    \* chat_stream (main.py:62-102)
    turn_pc,       \* "idle" | "start" | "reasoned" | "done"
    image_data,    \* request.image_data
    analysis,      \* the QueryAnalysis analyze_query returned
    llm_response,  \* history: what the classification request came back with
    llm_calls,     \* history: classification requests issued
    tool_calls,    \* history: the tools invoked, in order
    http_status,   \* 0 while the handler runs, then 200 or 500
    turn_exc,      \* the exception the handler turned into the 500, or "none"
    parked_turn,   \* the frame of the other chat_stream call in flight, not running
    \* the Chroma collection (tools.py:19): a set of entries with distinct ids
    collection,
    \* VectorStoreManager.search (tools.py:63-82)
    search_pc,       \* "idle" | "embedding" | "done"
    query,           \* the query argument
    search_embed,    \* history: what the embedding request came back with
    search_hits,     \* history: the entries collection.query returned
    search_queried,  \* history: collection.query was called
    search_seen,     \* history: the collection's count when it was queried
    search_at,       \* history: the ingests started, and the state of the last, at the query
    search_result,   \* the string returned, as the sequence of its parts
    search_exc,      \* the exception that left search, or "none"
    search_view,     \* history: the index as collection.query found it
    \* VectorStoreManager.add_documents (tools.py:84-123) under /ingest
    ingest_pc,       \* "idle" | "embedding" | "done"
    documents,       \* the documents argument, each document by its chunks
    metadatas,       \* the metadatas argument
    current_count,
    all_chunks,
    all_metadatas,
    all_ids,
    embeddings,
    embed_i,         \* the index of the embedding loop
    ingest_status,   \* what /ingest answered: "none" | "success" | "error"
    ingests,         \* history: ingests started
    embed_ok,        \* history: per chunk, whether its embedding came back as a vector
    upserted,        \* history: the entries this ingest handed to collection.upsert
    overlapped,      \* history: another ingest was in flight when this one was called
    parked,          \* the frame of the other add_documents call, suspended or returned
    committed,       \* history: the index as each returned add_documents call left it
    \* VisionTool.analyze_image (tools.py:134-154)
    vision_pc,       \* "idle" | "call" | "awaiting" | "done"
    image_base64,    \* the image argument, as its pieces between commas
    prompt,          \* the prompt argument
    vision_sent,     \* the image put in the request payload
    vision_response, \* history: what the multimodal request came back with
    vision_result,   \* the value returned, as a JSON value
    vision_exc       \* the exception that left analyze_image, or "none"

chunkVars == <<chunk_pc, input, text, chunk_size, overlap, start, chunks, windows, iters>>

argVars == <<user_query, chat_history, intent, tool_output>>

synthVars == <<synth_pc, system_instruction, final_prompt, messages, conn_open, lines,
               yielded, synth_exc>>

turnVars == <<turn_pc, image_data, analysis, llm_response, llm_calls, tool_calls,
              http_status, turn_exc, parked_turn>>

searchVars == <<search_pc, query, search_embed, search_hits, search_queried, search_seen, search_at,
                search_result, search_exc, search_view>>

ingestVars == <<ingest_pc, documents, metadatas, current_count, all_chunks, all_metadatas,
                all_ids, embeddings, embed_i, ingest_status, ingests, embed_ok, upserted,
                overlapped, parked, committed>>

retrievalVars == <<collection, searchVars, ingestVars>>

visionVars == <<vision_pc, image_base64, prompt, vision_sent, vision_response, vision_result,
                vision_exc>>

vars == <<chunkVars, argVars, synthVars, turnVars, retrievalVars, visionVars>>

----------------------------------------------------------------------------
(* Bounds of the model.                                                    *)

\* Longest text over the letters and the space.
MaxLen == 7

\* Longest text that may also hold newlines.
MaxNlLen == 4

MaxChunk == 6

MaxOverlap == 3

\* Loop iterations followed before the model stops looking (the loop itself has no cap).
MaxIters == 9

\* Lines of one model response followed.
MaxLines == 4

\* Turns of the longest chat history.
MaxHistory == 6

\* Ingests followed.
MaxIngests == 2

----------------------------------------------------------------------------
(* Python string primitives used by _chunk_text.                           *)

Alphabet == {"a", " ", "\n"}

Whitespace == {" ", "\n"}

Texts ==
    UNION {[1..n -> {"a", " "}] : n \in 0..MaxLen}
    \cup UNION {[1..n -> Alphabet] : n \in 0..MaxNlLen}

\* A slice bound as Python clamps it: negative counts from the end.
PyClamp(i, n) ==
    IF i < 0 THEN (IF i + n < 0 THEN 0 ELSE i + n)
    ELSE IF i > n THEN n ELSE i

\* t[s:e]
Slice(t, s, e) ==
    LET s2 == PyClamp(s, Len(t))
        e2 == PyClamp(e, Len(t))
    IN IF s2 >= e2 THEN <<>> ELSE SubSeq(t, s2 + 1, e2)

\* The 0-based positions t[s:e] reads.
SlicePositions(t, s, e) ==
    {i \in 0..(Len(t) - 1) : PyClamp(s, Len(t)) <= i /\ i < PyClamp(e, Len(t))}

\* t.rfind(ch, s, e): the highest index in the slice holding ch, or -1.
rfind(t, ch, s, e) ==
    LET hits == {i \in SlicePositions(t, s, e) : t[i + 1] = ch}
    IN IF hits = {} THEN -1 ELSE CHOOSE i \in hits : \A j \in hits : j <= i

\* t.strip()
strip(t) ==
    LET solid == {i \in 1..Len(t) : t[i] \notin Whitespace}
    IN IF solid = {} THEN <<>>
       ELSE LET lo == CHOOSE i \in solid : \A j \in solid : i <= j
                hi == CHOOSE i \in solid : \A j \in solid : j <= i
            IN SubSeq(t, lo, hi)

\* re.sub(r'\n+', '\n', t): every run of newlines becomes one newline.
RECURSIVE collapse_newlines(_)
collapse_newlines(t) ==
    IF Len(t) <= 1 THEN t
    ELSE IF t[1] = "\n" /\ t[2] = "\n" THEN collapse_newlines(Tail(t))
    ELSE <<t[1]>> \o collapse_newlines(Tail(t))

text_len == Len(text)

----------------------------------------------------------------------------
(* _chunk_text as a state machine: one action per loop iteration.          *)

ChunkIdle ==
    /\ chunk_pc = "idle" /\ input = <<>> /\ text = <<>> /\ chunk_size = 0
    /\ overlap = 0 /\ start = 0 /\ chunks = <<>> /\ windows = <<>> /\ iters = 0

ChunkInit ==
    /\ chunk_pc = "call"
    /\ input \in Texts
    /\ text = input
    /\ chunk_size \in 1..MaxChunk
    /\ overlap \in 0..MaxOverlap
    /\ start = 0 /\ chunks = <<>> /\ windows = <<>> /\ iters = 0

\* lines 29-33: the empty-text return, else the normalisation and the locals.
ChunkEnter ==
    /\ chunk_pc = "call"
    /\ IF text = <<>>
       THEN chunk_pc' = "done" /\ text' = text
       ELSE chunk_pc' = "while" /\ text' = collapse_newlines(text)
    /\ start' = 0 /\ chunks' = <<>>
    /\ UNCHANGED <<input, chunk_size, overlap, windows, iters>>

\* lines 36-40: where the window ends.
window_end ==
    LET end == start + chunk_size
        last_space == rfind(text, " ", start, end)
    IN IF end < text_len /\ last_space # -1 /\ last_space > start
       THEN last_space ELSE end

\* lines 46-47: where the cursor goes.
next_start(end) ==
    IF end - overlap >= end THEN end ELSE end - overlap

\* lines 35-47: one iteration of the loop.
ChunkLoop ==
    /\ chunk_pc = "while"
    /\ start < text_len
    /\ iters < MaxIters
    /\ LET end == window_end
           chunk == strip(Slice(text, start, end))
       IN /\ chunks' = IF chunk # <<>> THEN Append(chunks, chunk) ELSE chunks
          /\ windows' = IF chunk # <<>> THEN Append(windows, <<start, end>>) ELSE windows
          /\ start' = next_start(end)
    /\ iters' = iters + 1
    /\ UNCHANGED <<chunk_pc, input, text, chunk_size, overlap>>

\* line 49: the loop condition fails and the list is returned.
ChunkReturn ==
    /\ chunk_pc = "while"
    /\ ~(start < text_len)
    /\ chunk_pc' = "done"
    /\ UNCHANGED <<input, text, chunk_size, overlap, start, chunks, windows, iters>>

NextChunk ==
    \/ ChunkEnter /\ UNCHANGED <<argVars, synthVars, turnVars, retrievalVars, visionVars>>
    \/ ChunkLoop /\ UNCHANGED <<argVars, synthVars, turnVars, retrievalVars, visionVars>>
    \/ ChunkReturn /\ UNCHANGED <<argVars, synthVars, turnVars, retrievalVars, visionVars>>

----------------------------------------------------------------------------
(* JSON values as json.loads returns them, and the lines of a streamed     *)
(* response.                                                               *)

Absent == [t |-> "absent"]

JNull == [t |-> "null"]

JList == [t |-> "list"]

JStr(s) == [t |-> "str", s |-> s]

JBool(b) == [t |-> "bool", b |-> b]

\* A dict holds its keys' values; a key it lacks is Absent.
JDict(f) == [t |-> "dict", f |-> f]

Tokens == {"", "a", "b"}

\* The "message" objects followed: none, null, and {"content": c}.
MessageValues ==
    {Absent, JNull}
    \cup {JDict([content |-> c]) : c \in {JStr(tok) : tok \in Tokens} \cup {JNull}}

DoneValues == {Absent, JBool(TRUE), JBool(FALSE)}

BlankLine == [raw |-> "blank"]

GarbageLine == [raw |-> "garbage"]

JsonLine(v) == [raw |-> "json", value |-> v]

\* One line of the response: empty, text that is not JSON, or a JSON value.
StreamLines ==
    {BlankLine, GarbageLine, JsonLine(JList), JsonLine(JStr("a"))}
    \cup {JsonLine(JDict([message |-> JDict([content |-> JStr(tok)]), done |-> JBool(FALSE)])) :
            tok \in Tokens}
    \cup {JsonLine(JDict([message |-> JDict([content |-> JStr(tok)]), done |-> JBool(TRUE)])) :
            tok \in {"", "a"}}
    \cup {JsonLine(JDict([message |-> m, done |-> d])) :
            m \in {JNull, Absent, JDict([content |-> JNull])}, d \in {Absent, JBool(TRUE)}}

\* json.loads(line)
json_loads(line) ==
    IF line.raw = "json" THEN [ok |-> TRUE, value |-> line.value, exc |-> "none"]
    ELSE [ok |-> FALSE, value |-> Absent, exc |-> "JSONDecodeError"]

\* Only a dict has the attribute get.
has_get(v) == v.t = "dict"

\* d.get(key, default) of a dict d
dict_get(d, key, default) ==
    IF key \in DOMAIN d.f /\ d.f[key] # Absent THEN d.f[key] ELSE default

\* Python's truth value of a JSON value.
truthy(v) ==
    CASE v.t = "str" -> v.s # ""
      [] v.t = "bool" -> v.b
      [] v.t = "dict" -> \E k \in DOMAIN v.f : v.f[k] # Absent
      [] v.t = "list" -> TRUE
      [] OTHER -> FALSE

----------------------------------------------------------------------------
(* ResponseSynthesizer.generate_response_stream.                           *)

\* The closed set of the specification; the parameter itself is a str.
IntentStrings == {"search", "summarize", "calculate", "chitchat", "vision_qa"}

Queries == {"q"}

ToolOutputs == {"", "evidence"}

Histories == {[i \in 1..MaxHistory |-> i]}

\* h[-n:]
LastN(h, n) == IF Len(h) <= n THEN h ELSE SubSeq(h, Len(h) - n + 1, Len(h))

SynthIdle ==
    /\ synth_pc = "idle" /\ system_instruction = "none" /\ final_prompt = <<>>
    /\ messages = <<>> /\ conn_open = FALSE /\ lines = <<>> /\ yielded = <<>>
    /\ synth_exc = "none"

ArgsIdle ==
    /\ user_query = "q" /\ chat_history = <<>> /\ intent = "none" /\ tool_output = ""

\* The generator is created with any arguments (its first step has not run).
SynthInit ==
    /\ user_query \in Queries
    /\ chat_history \in Histories
    /\ intent \in IntentStrings
    /\ tool_output \in ToolOutputs
    /\ synth_pc = "call" /\ system_instruction = "none" /\ final_prompt = <<>>
    /\ messages = <<>> /\ conn_open = FALSE /\ lines = <<>> /\ yielded = <<>>
    /\ synth_exc = "none"

\* line 36: the intents that get the evidence prompt.
evidence_intent(i) == i = "search"

\* lines 36-58: the prompt and the message payload.
BuildPrompt ==
    /\ synth_pc = "call"
    /\ synth_pc' = "built"
    /\ system_instruction' = IF evidence_intent(intent) THEN "answer_from_context_and_cite"
                             ELSE "helpful_and_friendly"
    /\ final_prompt' = IF evidence_intent(intent)
                       THEN <<"--- CONTEXT START ---", tool_output, "--- CONTEXT END ---",
                              "User Question: ", user_query>>
                       ELSE <<user_query>>
    /\ messages' = <<[role |-> "system", content |-> system_instruction']>>
                   \o [i \in 1..Len(LastN(chat_history, 5)) |->
                         [role |-> "history", content |-> LastN(chat_history, 5)[i]]]
                   \o <<[role |-> "user", content |-> final_prompt']>>
    /\ UNCHANGED <<conn_open, lines, yielded, synth_exc>>

\* lines 62-73: the streaming request is sent; the connection opens or the
\* transport raises.
OpenStream ==
    /\ synth_pc = "built"
    /\ \E ok \in BOOLEAN :
          IF ok THEN synth_pc' = "open" /\ conn_open' = TRUE /\ synth_exc' = "none"
          ELSE synth_pc' = "raised" /\ conn_open' = FALSE /\ synth_exc' = "ConnectError"
    /\ UNCHANGED <<system_instruction, final_prompt, messages, lines, yielded>>

\* line 95: the exceptions the handler around a line's processing catches.
line_handler_catches(exc) == exc = "JSONDecodeError"

\* The loop body with the completion line skipped instead of ending the loop.
process_line_no_break(line) ==
    IF line.raw # "json" \/ ~has_get(line.value) \/ ~has_get(line.value.f.message)
    THEN [act |-> "continue", token |-> "", exc |-> "none"]
    ELSE IF truthy(dict_get(line.value.f.message, "content", JStr("")))
            /\ ~truthy(dict_get(line.value, "done", JBool(FALSE)))
         THEN [act |-> "yield", token |-> line.value.f.message.f.content.s, exc |-> "none"]
    ELSE [act |-> "continue", token |-> "", exc |-> "none"]

\* lines 77-96: what the loop body does with one line.
process_line(line) ==
    IF line.raw = "blank" THEN [act |-> "continue", token |-> "", exc |-> "none"]
    ELSE LET loaded == json_loads(line)
             chunk_json == loaded.value
             message == dict_get(chunk_json, "message", JDict([x \in {} |-> Absent]))
             token == dict_get(message, "content", JStr(""))
             raised == IF ~loaded.ok THEN loaded.exc
                       ELSE IF ~has_get(chunk_json) THEN "AttributeError"
                       ELSE IF ~has_get(message) THEN "AttributeError"
                       ELSE "none"
         IN IF raised # "none"
            THEN IF line_handler_catches(raised)
                 THEN [act |-> "continue", token |-> "", exc |-> "none"]
                 ELSE [act |-> "raise", token |-> "", exc |-> raised]
            ELSE IF truthy(dict_get(chunk_json, "done", JBool(FALSE)))
                 THEN [act |-> "break", token |-> "", exc |-> "none"]
            ELSE IF truthy(token)
                 THEN [act |-> "yield", token |-> token.s, exc |-> "none"]
            ELSE [act |-> "continue", token |-> "", exc |-> "none"]

\* A stream closed by hand after the loop: only the two returns release it.
async_with_releases_on_return_only(how) == how \in {"break", "end_of_input"}

\* lines 62-73: the block is an `async with`; the stream's __aexit__ closes
\* the response on every way control leaves the block.
async_with_releases(how) ==
    how \in {"break", "end_of_input", "raise", "GeneratorExit", "CancelledError"}

\* lines 76-96: aiter_lines delivers a line and the loop body runs on it.
StreamLine ==
    /\ synth_pc = "open"
    /\ Len(lines) < MaxLines
    /\ \E line \in StreamLines :
          LET r == process_line(line)
          IN /\ lines' = Append(lines, line)
             /\ yielded' = IF r.act = "yield" THEN Append(yielded, r.token) ELSE yielded
             /\ synth_pc' = CASE r.act = "break" -> "ended"
                              [] r.act = "raise" -> "raised"
                              [] OTHER -> "open"
             /\ synth_exc' = r.exc
             /\ conn_open' = IF r.act \in {"continue", "yield"} THEN TRUE
                             ELSE ~async_with_releases(r.act)
    /\ UNCHANGED <<system_instruction, final_prompt, messages>>

\* line 76: the response ends with no completion line; the generator returns.
StreamEnd ==
    /\ synth_pc = "open"
    /\ synth_pc' = "ended"
    /\ conn_open' = ~async_with_releases("end_of_input")
    /\ UNCHANGED <<system_instruction, final_prompt, messages, lines, yielded, synth_exc>>

\* line 93: the consumer stops while the generator is suspended at the yield
\* and the generator is closed (aclose, by the consumer or by the event loop's
\* finalizer): GeneratorExit is raised at the yield, passes the handler of
\* line 95 and leaves the `async with` block.
ConsumerStops ==
    /\ synth_pc = "open"
    /\ lines # <<>>
    /\ process_line(lines[Len(lines)]).act = "yield"
    /\ ~line_handler_catches("GeneratorExit")
    /\ synth_pc' = "closed"
    /\ conn_open' = ~async_with_releases("GeneratorExit")
    /\ UNCHANGED <<system_instruction, final_prompt, messages, lines, yielded, synth_exc>>

\* line 76: the turn is cancelled while the generator awaits the next line:
\* CancelledError is raised at the await and leaves the `async with` block.
TurnCancelled ==
    /\ synth_pc = "open"
    /\ synth_pc' = "cancelled"
    /\ synth_exc' = "CancelledError"
    /\ conn_open' = ~async_with_releases("CancelledError")
    /\ UNCHANGED <<system_instruction, final_prompt, messages, lines, yielded>>

NextSynth ==
    \/ BuildPrompt /\ UNCHANGED <<chunkVars, argVars, turnVars, retrievalVars, visionVars>>
    \/ OpenStream /\ UNCHANGED <<chunkVars, argVars, turnVars, retrievalVars, visionVars>>
    \/ StreamLine /\ UNCHANGED <<chunkVars, argVars, turnVars, retrievalVars, visionVars>>
    \/ StreamEnd /\ UNCHANGED <<chunkVars, argVars, turnVars, retrievalVars, visionVars>>
    \/ ConsumerStops /\ UNCHANGED <<chunkVars, argVars, turnVars, retrievalVars, visionVars>>
    \/ TurnCancelled /\ UNCHANGED <<chunkVars, argVars, turnVars, retrievalVars, visionVars>>

----------------------------------------------------------------------------
(* ReasoningEngine.analyze_query (reasoning.py:47-101).                    *)

\* reasoning.py:9-16: the members of the enumeration IntentType.
IntentType ==
    [SEARCH |-> "search", SUMMARIZE |-> "summarize", CALCULATE |-> "calculate",
     CHITCHAT |-> "chitchat"]

IntentValues == {IntentType[m] : m \in DOMAIN IntentType}

\* IntentType.<name>: the member's value, or the AttributeError of a name
\* the class does not have.
enum_attr(name) ==
    IF name \in DOMAIN IntentType THEN [ok |-> TRUE, v |-> IntentType[name]]
    ELSE [ok |-> FALSE, v |-> "AttributeError"]

None == [has |-> FALSE]

Some(v) == [has |-> TRUE, v |-> v]

\* The JSON documents the model may put in the message content: every field
\* present or not, the intent inside or outside the enumeration.
AnalysisDocs ==
    [intent : {None} \cup {Some(i) : i \in IntentValues \cup {"vision_qa", "unknown"}},
     key_entities : {None, Some(<<"e">>)},
     missing_info : {None, Some("m")},
     is_safe : {None, Some(FALSE)}]

EmptyDoc == [intent |-> None, key_entities |-> None, missing_info |-> None, is_safe |-> None]

\* A content string: JSON text holding a document, or text that is not JSON.
JsonText(doc) == [t |-> "str", isjson |-> TRUE, doc |-> doc]

NonJsonText == [t |-> "str", isjson |-> FALSE, doc |-> EmptyDoc]

ContentValues == {Absent, JNull, NonJsonText} \cup {JsonText(d) : d \in AnalysisDocs}

\* What the classification request can come back with.
ReasoningResponses ==
    {[kind |-> "transport_error", body |-> Absent],
     [kind |-> "http_error_status", body |-> Absent],
     [kind |-> "body_not_json", body |-> Absent],
     [kind |-> "ok", body |-> JList],
     [kind |-> "ok", body |-> JDict([message |-> Absent])],
     [kind |-> "ok", body |-> JDict([message |-> JNull])]}
    \cup {[kind |-> "ok", body |-> JDict([message |-> JDict([content |-> c])])] :
            c \in ContentValues}

NoResponse == [kind |-> "none", body |-> Absent]

NoAnalysis == [intent |-> "none", key_entities |-> <<>>, missing_info |-> None, is_safe |-> TRUE]

\* reasoning.py:18-25: QueryAnalysis.model_validate_json(content)
model_validate_json(content) ==
    IF content.t # "str" \/ ~content.isjson
       \/ ~content.doc.intent.has \/ content.doc.intent.v \notin IntentValues
    THEN [ok |-> FALSE, exc |-> "ValidationError", value |-> NoAnalysis]
    ELSE [ok |-> TRUE, exc |-> "none",
          value |-> [intent |-> content.doc.intent.v,
                     key_entities |-> IF content.doc.key_entities.has
                                      THEN content.doc.key_entities.v ELSE <<>>,
                     missing_info |-> content.doc.missing_info,
                     is_safe |-> IF content.doc.is_safe.has
                                 THEN content.doc.is_safe.v ELSE TRUE]]

\* reasoning.py:97: the exception classes the handler catches (all of those
\* the call can raise derive from Exception).
ExceptionClasses ==
    {"ConnectError", "HTTPStatusError", "JSONDecodeError", "AttributeError", "ValidationError"}

\* The handler narrowed to the two decoding errors.
reasoning_catches_decode_only(exc) == exc \in {"JSONDecodeError", "ValidationError"}

reasoning_catches(exc) == exc \in ExceptionClasses

\* reasoning.py:76-95: what the try block raises on a response, or "none".
try_block_raises(resp) ==
    IF resp.kind = "transport_error" THEN "ConnectError"
    ELSE IF resp.kind = "http_error_status" THEN "HTTPStatusError"
    ELSE IF resp.kind = "body_not_json" THEN "JSONDecodeError"
    ELSE IF ~has_get(resp.body) THEN "AttributeError"
    ELSE LET message == dict_get(resp.body, "message", JDict([x \in {} |-> Absent]))
         IN IF ~has_get(message) THEN "AttributeError"
            ELSE model_validate_json(dict_get(message, "content", JsonText(EmptyDoc))).exc

\* reasoning.py:93-95: the value the try block returns when nothing is raised.
try_block_value(resp) ==
    LET message == dict_get(resp.body, "message", JDict([x \in {} |-> Absent]))
    IN model_validate_json(dict_get(message, "content", JsonText(EmptyDoc))).value

\* reasoning.py:101: the fallback result.
FallbackAnalysis ==
    [intent |-> IntentType.CHITCHAT, key_entities |-> <<>>, missing_info |-> None,
     is_safe |-> TRUE]

\* reasoning.py:75-101: the result of analyze_query on a response: a value
\* returned, or an exception that leaves the function.
analyze_query(resp) ==
    LET exc == try_block_raises(resp)
    IN IF exc = "none" THEN [raised |-> "none", value |-> try_block_value(resp)]
       ELSE IF reasoning_catches(exc) THEN [raised |-> "none", value |-> FallbackAnalysis]
       ELSE [raised |-> exc, value |-> NoAnalysis]

----------------------------------------------------------------------------
(* chat_stream (main.py:62-102).                                           *)

\* request.image_data: absent, the empty string, or an image.
ImageData == {"None", "", "data:image/png;base64,AAAA"}

image_truthy(img) == img \notin {"None", ""}

\* The strings the two tools return (tools.py:65, 75, 82, 151, 154).
SearchReturns ==
    {"Error generating embeddings.", "No relevant info found in knowledge base.",
     "[Result 1] (Source: A):\ntext"}

VisionReturns == {"Error analyzing image.", "a description", ""}

\* The locals of one chat_stream call and the generator it created.
TurnFrame(pc, img, q, h, i, out, a, resp, calls, tools, status, exc, gen) ==
    [turn_pc |-> pc, image_data |-> img, user_query |-> q, chat_history |-> h,
     intent |-> i, tool_output |-> out, analysis |-> a, llm_response |-> resp,
     llm_calls |-> calls, tool_calls |-> tools, http_status |-> status,
     turn_exc |-> exc, synth_pc |-> gen]

\* No other request is in flight.
IdleTurnFrame ==
    TurnFrame("idle", "None", "", <<>>, "none", "", NoAnalysis, NoResponse, 0, <<>>, 0,
              "none", "idle")

TurnIdle ==
    /\ turn_pc = "idle" /\ image_data = "None" /\ analysis = NoAnalysis
    /\ llm_response = NoResponse /\ llm_calls = 0 /\ tool_calls = <<>>
    /\ http_status = 0 /\ turn_exc = "none"
    /\ parked_turn = IdleTurnFrame

\* A request has arrived; nothing of the handler has run.
TurnInit ==
    /\ turn_pc = "start"
    /\ image_data \in ImageData
    /\ user_query \in Queries
    /\ chat_history \in Histories
    /\ intent = "none" /\ tool_output = ""
    /\ analysis = NoAnalysis /\ llm_response = NoResponse /\ llm_calls = 0
    /\ tool_calls = <<>> /\ http_status = 0 /\ turn_exc = "none"
    /\ parked_turn = IdleTurnFrame

\* main.py:100-102: an exception raised inside the try block becomes the
\* HTTPException with status 500.
TurnFails(exc) ==
    /\ turn_pc' = "done"
    /\ http_status' = 500
    /\ turn_exc' = exc

\* A handler that classifies again after the classification has come back.
TurnReasoningRepeats ==
    /\ turn_pc \in {"start", "reasoned"}
    /\ \E resp \in ReasoningResponses :
          LET r == analyze_query(resp)
          IN /\ llm_response' = resp
             /\ llm_calls' = llm_calls + 1
             /\ analysis' = r.value
             /\ intent' = r.value.intent
             /\ turn_pc' = "reasoned"
    /\ UNCHANGED <<image_data, user_query, chat_history, tool_output, tool_calls,
                   http_status, turn_exc, parked_turn>>

\* main.py:64-76: phase 1.  With image input the member IntentType.VISION_QA
\* is read; otherwise analyze_query is awaited.
TurnReasoning ==
    /\ turn_pc = "start"
    /\ IF image_truthy(image_data)
       THEN LET member == enum_attr("VISION_QA")
            IN /\ IF member.ok
                  THEN /\ intent' = member.v
                       /\ turn_pc' = "reasoned"
                       /\ UNCHANGED <<http_status, turn_exc>>
                  ELSE /\ TurnFails(member.v)
                       /\ UNCHANGED intent
               /\ UNCHANGED <<analysis, llm_response, llm_calls>>
       ELSE \E resp \in ReasoningResponses :
               LET r == analyze_query(resp)
               IN /\ llm_response' = resp
                  /\ llm_calls' = llm_calls + 1
                  /\ IF r.raised = "none"
                     THEN /\ analysis' = r.value
                          /\ intent' = r.value.intent
                          /\ turn_pc' = "reasoned"
                          /\ UNCHANGED <<http_status, turn_exc>>
                     ELSE /\ TurnFails(r.raised)
                          /\ UNCHANGED <<analysis, intent>>
    /\ UNCHANGED <<image_data, user_query, chat_history, tool_output, tool_calls,
                   parked_turn>>

\* main.py:80-87: the tool the dispatch selects, given the value of
\* IntentType.VISION_QA: "analyze_image", "search", "calculate" or "none".
selected_tool(vision_qa) ==
    IF intent = vision_qa /\ image_truthy(image_data) THEN "analyze_image"
    ELSE IF intent = IntentType.SEARCH THEN "search"
    ELSE IF intent = IntentType.CALCULATE THEN "calculate"
    ELSE "none"

\* A handler that looks at is_safe and missing_info first and answers such a
\* turn with a refusal instead of going on to the tool phase.
TurnToolAndRespondGated ==
    /\ turn_pc = "reasoned"
    /\ LET member == enum_attr("VISION_QA")
       IN IF ~analysis.is_safe \/ analysis.missing_info.has
          THEN /\ turn_pc' = "done"
               /\ http_status' = 400
               /\ tool_output' = ""
               /\ UNCHANGED <<tool_calls, synth_pc, turn_exc>>
          ELSE IF ~member.ok
          THEN /\ TurnFails(member.v)
               /\ tool_output' = ""
               /\ UNCHANGED <<tool_calls, synth_pc>>
          ELSE /\ LET tool == selected_tool(member.v)
                  IN /\ tool_calls' = IF tool \in {"analyze_image", "search"}
                                      THEN Append(tool_calls, tool) ELSE tool_calls
                     /\ tool_output' \in
                           CASE tool = "analyze_image" -> VisionReturns
                             [] tool = "search" -> SearchReturns
                             [] tool = "calculate" -> {"Calculator tool not yet implemented."}
                             [] OTHER -> {""}
               /\ turn_pc' = "done"
               /\ http_status' = 200
               /\ synth_pc' = "call"
               /\ UNCHANGED turn_exc
    /\ UNCHANGED <<image_data, user_query, chat_history, intent, analysis, llm_response,
                   llm_calls, parked_turn>>
    /\ UNCHANGED <<system_instruction, final_prompt, messages, conn_open, lines, yielded,
                   synth_exc>>

\* main.py:78-98: phases 2 and 3.  Line 80 reads IntentType.VISION_QA before
\* anything else; then one tool is awaited and the StreamingResponse around
\* the new generator is returned.
TurnToolAndRespond ==
    /\ turn_pc = "reasoned"
    /\ LET member == enum_attr("VISION_QA")
       IN IF ~member.ok
          THEN /\ TurnFails(member.v)
               /\ tool_output' = ""
               /\ UNCHANGED <<tool_calls, synth_pc>>
          ELSE /\ LET tool == selected_tool(member.v)
                  IN /\ tool_calls' = IF tool \in {"analyze_image", "search"}
                                      THEN Append(tool_calls, tool) ELSE tool_calls
                     /\ tool_output' \in
                           CASE tool = "analyze_image" -> VisionReturns
                             [] tool = "search" -> SearchReturns
                             [] tool = "calculate" -> {"Calculator tool not yet implemented."}
                             [] OTHER -> {""}
               /\ turn_pc' = "done"
               /\ http_status' = 200
               /\ synth_pc' = "call"
               /\ UNCHANGED turn_exc
    /\ UNCHANGED <<image_data, user_query, chat_history, intent, analysis, llm_response,
                   llm_calls, parked_turn>>
    /\ UNCHANGED <<system_instruction, final_prompt, messages, conn_open, lines, yielded,
                   synth_exc>>

NextTurn ==
    \/ TurnReasoning /\ UNCHANGED <<chunkVars, synthVars, retrievalVars, visionVars>>
    \/ TurnToolAndRespond /\ UNCHANGED <<chunkVars, retrievalVars, visionVars>>

\* main.py:61-62: the server accepts a second POST /chat while the first call is
\* in flight; its handler has not run yet.
TurnArrives ==
    /\ parked_turn = IdleTurnFrame
    /\ \E img \in ImageData, q \in Queries, h \in Histories :
          parked_turn' = TurnFrame("start", img, q, h, "none", "", NoAnalysis, NoResponse,
                                   0, <<>>, 0, "none", "idle")
    /\ UNCHANGED <<turn_pc, image_data, analysis, llm_response, llm_calls, tool_calls,
                   http_status, turn_exc>>

\* main.py:74, 81, 84: while one call waits at an await (or has returned) the
\* event loop runs the other call.  Every name of chat_stream is a local of
\* the call, so the two frames change places entirely.
TurnSwitch ==
    /\ parked_turn # IdleTurnFrame
    /\ parked_turn' = TurnFrame(turn_pc, image_data, user_query, chat_history, intent,
                                tool_output, analysis, llm_response, llm_calls,
                                tool_calls, http_status, turn_exc, synth_pc)
    /\ turn_pc' = parked_turn.turn_pc
    /\ image_data' = parked_turn.image_data
    /\ user_query' = parked_turn.user_query
    /\ chat_history' = parked_turn.chat_history
    /\ intent' = parked_turn.intent
    /\ tool_output' = parked_turn.tool_output
    /\ analysis' = parked_turn.analysis
    /\ llm_response' = parked_turn.llm_response
    /\ llm_calls' = parked_turn.llm_calls
    /\ tool_calls' = parked_turn.tool_calls
    /\ http_status' = parked_turn.http_status
    /\ turn_exc' = parked_turn.turn_exc
    /\ synth_pc' = parked_turn.synth_pc
    /\ UNCHANGED <<system_instruction, final_prompt, messages, conn_open, lines, yielded,
                   synth_exc>>

\* Two chat_stream calls in flight on the one event loop.
NextTurns ==
    \/ TurnReasoning /\ UNCHANGED <<chunkVars, synthVars, retrievalVars, visionVars>>
    \/ TurnToolAndRespond /\ UNCHANGED <<chunkVars, retrievalVars, visionVars>>
    \/ TurnArrives /\ UNCHANGED <<chunkVars, argVars, synthVars, retrievalVars, visionVars>>
    \/ TurnSwitch /\ UNCHANGED <<chunkVars, retrievalVars, visionVars>>

----------------------------------------------------------------------------
(* VectorStoreManager: _get_embedding, search and add_documents            *)
(* (tools.py:51-123), and the Chroma collection behind them.               *)

\* tools.py:63, main.py:84: the number of results asked for.
top_k == 3

\* tools.py:112
batch_size == 100

\* What the embedding request can come back with.
EmbedResponses ==
    {"transport_error", "http_error_status", "body_not_json", "no_embedding_key",
     "empty_vector", "ok"}

\* The embedding model is a deterministic function of the text: the vector
\* is named by the text it encodes.
embedding_of(txt) == <<txt>>

\* A handler that catches only the error status.
embedding_catches_status_only(exc) == exc = "HTTPStatusError"

\* tools.py:59: the exception classes the handler catches.
embedding_catches(exc) ==
    exc \in {"ConnectError", "HTTPStatusError", "JSONDecodeError", "KeyError"}

\* tools.py:51-61: _get_embedding on a response: the vector, [] on a failure.
get_embedding(txt, resp) ==
    LET exc == CASE resp = "transport_error" -> "ConnectError"
                 [] resp = "http_error_status" -> "HTTPStatusError"
                 [] resp = "body_not_json" -> "JSONDecodeError"
                 [] resp = "no_embedding_key" -> "KeyError"
                 [] OTHER -> "none"
    IN IF exc # "none"
       THEN IF embedding_catches(exc) THEN [raised |-> "none", value |-> <<>>]
            ELSE [raised |-> exc, value |-> <<>>]
       ELSE IF resp = "empty_vector" THEN [raised |-> "none", value |-> <<>>]
       ELSE [raised |-> "none", value |-> embedding_of(txt)]

\* A metadata dict: whether it holds any key, and its "source" if it has one.
MetaA == [has_keys |-> TRUE, source |-> Some("A")]

MetaB == [has_keys |-> TRUE, source |-> Some("B")]

MetaOther == [has_keys |-> TRUE, source |-> None]

MetaEmpty == [has_keys |-> FALSE, source |-> None]

\* Similarity taken for distance: the equal vector is the farthest.
distance_inverted(u, v) == IF u = v THEN 1 ELSE 0

\* Cosine distance, as far as the model tells vectors apart.
distance(u, v) == IF u = v THEN 0 ELSE 1

\* collection.count()
collection_count == Cardinality(collection)

\* collection.query(query_embeddings=[vec], n_results=n): the result lists the
\* store may return: the n nearest entries (all of them when it holds fewer),
\* by ascending distance, ties in any order.
collection_query(vec, n) ==
    LET m == IF collection_count < n THEN collection_count ELSE n
    IN {res \in [1..m -> collection] :
          /\ \A i, j \in 1..m : i < j =>
                (res[i] # res[j] /\ distance(vec, res[i].embedding) <= distance(vec, res[j].embedding))
          /\ \A e \in collection : (\A i \in 1..m : res[i] # e) =>
                \A i \in 1..m : distance(vec, res[i].embedding) <= distance(vec, e.embedding)}

\* An add that leaves what is stored in place and stores the new entry too.
upsert_add(coll, ids, texts, embs, metas) ==
    coll \cup {[id |-> ids[i], document |-> texts[i], embedding |-> embs[i],
                metadata |-> metas[i]] : i \in 1..Len(ids)}

\* collection.upsert(ids, documents, embeddings, metadatas) of equally long
\* lists: an entry with a given id replaces the stored one.
upsert(coll, ids, texts, embs, metas) ==
    LET new == {[id |-> ids[i], document |-> texts[i], embedding |-> embs[i],
                 metadata |-> metas[i]] : i \in 1..Len(ids)}
    IN {e \in coll : \A i \in 1..Len(ids) : e.id # ids[i]} \cup new

\* A block numbered by the loop index itself.
result_block_zero_based(n, meta, doc) ==
    <<"[Result ", ToString(n - 1), "] (Source: ",
      IF meta.has_keys /\ meta.source.has THEN meta.source.v ELSE "Unknown", "):\n", doc>>

\* tools.py:79-80: the block of the n-th result (n = i + 1), as its parts.
result_block(n, meta, doc) ==
    LET source == IF meta.has_keys /\ meta.source.has THEN meta.source.v ELSE "Unknown"
    IN <<"[Result ", ToString(n), "] (Source: ", source, "):\n", doc>>

\* tools.py:77-82: the formatted result, as the sequence of its parts.
RECURSIVE format_results(_, _)
format_results(hits, i) ==
    IF i > Len(hits) THEN <<>>
    ELSE LET block == result_block(i, hits[i].metadata, hits[i].document)
         IN IF i = Len(hits) THEN block
            ELSE block \o <<"\n\n">> \o format_results(hits, i + 1)

SearchQueries == {"x", "y", "w"}

SearchIdle ==
    /\ search_pc = "idle" /\ query = "" /\ search_embed = "none" /\ search_hits = <<>>
    /\ search_queried = FALSE /\ search_seen = 0 /\ search_result = <<>>
    /\ search_exc = "none" /\ search_at = <<0, "idle">> /\ search_view = {}

\* tools.py:63-64: search is called and awaits the embedding of the query.
SearchStart ==
    /\ search_pc \in {"idle", "done"}
    /\ search_pc' = "embedding"
    /\ query' \in SearchQueries
    /\ search_embed' = "none" /\ search_hits' = <<>> /\ search_queried' = FALSE
    /\ search_seen' = 0 /\ search_result' = <<>> /\ search_exc' = "none"
    /\ search_at' = <<0, "idle">> /\ search_view' = {}
    /\ UNCHANGED collection

\* tools.py:64-82: the embedding comes back; the rest of search runs.
SearchFinish ==
    /\ search_pc = "embedding"
    /\ \E resp \in EmbedResponses :
          LET query_vec == get_embedding(query, resp)
          IN /\ search_embed' = resp
             /\ IF query_vec.raised # "none"
                THEN /\ search_exc' = query_vec.raised
                     /\ search_result' = <<>> /\ search_hits' = <<>>
                     /\ search_queried' = FALSE /\ search_seen' = 0
                     /\ search_view' = {}
                ELSE IF query_vec.value = <<>>
                THEN /\ search_result' = <<"Error generating embeddings.">>
                     /\ search_hits' = <<>> /\ search_queried' = FALSE /\ search_seen' = 0
                     /\ search_exc' = "none" /\ search_view' = {}
                ELSE \E hits \in collection_query(query_vec.value, top_k) :
                        /\ search_hits' = hits
                        /\ search_queried' = TRUE
                        /\ search_seen' = collection_count
                        /\ search_view' = collection
                        /\ search_result' =
                              IF hits = <<>> THEN <<"No relevant info found in knowledge base.">>
                              ELSE format_results(hits, 1)
                        /\ search_exc' = "none"
    /\ search_at' = <<ingests, ingest_pc>>
    /\ search_pc' = "done"
    /\ UNCHANGED <<query, collection>>

\* The chunks _chunk_text returns for a document name a document here: none
\* (an empty or blank text), one or two.  The text x comes under two sources.
IngestRequests ==
    {[documents |-> <<<<"x">>>>, metadatas |-> <<MetaA>>],
     [documents |-> <<<<"x">>>>, metadatas |-> <<MetaB>>],
     [documents |-> <<<<"y", "z">>>>, metadatas |-> <<MetaB>>],
     [documents |-> <<<<>>>>, metadatas |-> <<MetaA>>],
     [documents |-> <<<<"w">>>>, metadatas |-> <<MetaEmpty>>],
     [documents |-> <<<<>>, <<"x">>>>, metadatas |-> <<MetaA, MetaOther>>]}

\* The locals of an add_documents call that has not been made.
IdleFrame ==
    [ingest_pc |-> "idle", documents |-> <<>>, metadatas |-> <<>>, current_count |-> 0,
     all_chunks |-> <<>>, all_metadatas |-> <<>>, all_ids |-> <<>>, embeddings |-> <<>>,
     embed_i |-> 0, ingest_status |-> "none", embed_ok |-> <<>>, upserted |-> {},
     overlapped |-> FALSE]

\* The locals of the add_documents call that is running.
Frame ==
    [ingest_pc |-> ingest_pc, documents |-> documents, metadatas |-> metadatas,
     current_count |-> current_count, all_chunks |-> all_chunks,
     all_metadatas |-> all_metadatas, all_ids |-> all_ids, embeddings |-> embeddings,
     embed_i |-> embed_i, ingest_status |-> ingest_status, embed_ok |-> embed_ok,
     upserted |-> upserted, overlapped |-> overlapped]

IngestIdle ==
    /\ ingest_pc = "idle" /\ documents = <<>> /\ metadatas = <<>> /\ current_count = 0
    /\ all_chunks = <<>> /\ all_metadatas = <<>> /\ all_ids = <<>> /\ embeddings = <<>>
    /\ embed_i = 0 /\ ingest_status = "none" /\ ingests = 0
    /\ embed_ok = <<>> /\ upserted = {} /\ overlapped = FALSE
    /\ parked = IdleFrame /\ committed = {{}}

\* tools.py:92-100: the chunks of every document in order, each with...
RECURSIVE flatten(_, _, _)
flatten(docs, idx, field) ==
    IF idx > Len(docs) THEN <<>>
    ELSE [chunk_i \in 1..Len(docs[idx]) |->
            CASE field = "chunk" -> docs[idx][chunk_i]
              [] field = "doc" -> idx - 1
              [] OTHER -> chunk_i - 1]
         \o flatten(docs, idx + 1, field)

\* ... tools.py:94: the metadata of its document ({} when the list is short)
meta_of(metas, idx) == IF idx < Len(metas) THEN metas[idx + 1] ELSE MetaEmpty

\* ... tools.py:100: and the id doc_<count + idx>_chunk_<chunk_i>.
chunk_id(count, idx, chunk_i) == <<"doc", count + idx, "chunk", chunk_i>>

\* main.py:105-110, tools.py:84-100: /ingest is called; add_documents reads
\* the count and lays out chunks, metadata and ids.
IngestStart ==
    /\ ingest_pc \in {"idle", "done"}
    /\ ingests < MaxIngests
    /\ ingests' = ingests + 1
    /\ \E req \in IngestRequests :
          LET cs == flatten(req.documents, 1, "chunk")
              ds == flatten(req.documents, 1, "doc")
              ks == flatten(req.documents, 1, "chunk_i")
          IN /\ documents' = req.documents
             /\ metadatas' = req.metadatas
             /\ current_count' = collection_count
             /\ all_chunks' = cs
             /\ all_metadatas' = [i \in 1..Len(cs) |-> meta_of(req.metadatas, ds[i])]
             /\ all_ids' = [i \in 1..Len(cs) |-> chunk_id(collection_count, ds[i], ks[i])]
    /\ embeddings' = <<>>
    /\ embed_i' = 0
    /\ ingest_status' = "none"
    /\ ingest_pc' = "embedding"
    /\ embed_ok' = <<>> /\ upserted' = {}
    /\ overlapped' = (parked.ingest_pc = "embedding")
    /\ UNCHANGED <<parked, committed, collection>>

\* tools.py:103-106: one embedding comes back; it is kept when not empty.
IngestEmbed ==
    /\ ingest_pc = "embedding"
    /\ embed_i < Len(all_chunks)
    /\ \E resp \in EmbedResponses :
          LET emb == get_embedding(all_chunks[embed_i + 1], resp)
          IN IF emb.raised # "none"
             THEN /\ ingest_pc' = "done" /\ ingest_status' = "error"
                  /\ UNCHANGED <<embeddings, embed_i, embed_ok>>
             ELSE /\ embeddings' = IF emb.value # <<>> THEN Append(embeddings, emb.value)
                                   ELSE embeddings
                  /\ embed_i' = embed_i + 1
                  /\ embed_ok' = Append(embed_ok, emb.value # <<>>)
                  /\ UNCHANGED <<ingest_pc, ingest_status>>
    /\ UNCHANGED <<documents, metadatas, current_count, all_chunks, all_metadatas, all_ids,
                   ingests, upserted, overlapped, parked, committed, collection>>

\* tools.py:115-122: the batches, upserted one after the other from index i.
RECURSIVE upsert_batches(_, _, _)
upsert_batches(coll, i, total_chunks) ==
    IF i >= total_chunks THEN coll
    ELSE LET end == IF i + batch_size < total_chunks THEN i + batch_size ELSE total_chunks
         IN upsert_batches(upsert(coll, Slice(all_ids, i, end), Slice(all_chunks, i, end),
                                  Slice(embeddings, i, end), Slice(all_metadatas, i, end)),
                           i + batch_size, total_chunks)

\* A batch loop of one chunk per batch that awaits after each upsert: the call
\* can be left between two of its batches.
IngestFinishSuspending ==
    /\ ingest_pc \in {"embedding", "upserting"}
    /\ embed_i = Len(all_chunks)
    /\ LET i == Cardinality(upserted)
           last == i + 1 >= Len(embeddings)
       IN /\ collection' = IF embeddings = <<>> THEN collection
                            ELSE upsert(collection, Slice(all_ids, i, i + 1),
                                        Slice(all_chunks, i, i + 1),
                                        Slice(embeddings, i, i + 1),
                                        Slice(all_metadatas, i, i + 1))
          /\ upserted' = IF embeddings = <<>> THEN {}
                          ELSE upsert(upserted, Slice(all_ids, i, i + 1),
                                      Slice(all_chunks, i, i + 1),
                                      Slice(embeddings, i, i + 1),
                                      Slice(all_metadatas, i, i + 1))
          /\ committed' = IF last THEN committed \cup {collection'} ELSE committed
          /\ ingest_pc' = IF last THEN "done" ELSE "upserting"
          /\ ingest_status' = IF last THEN "success" ELSE ingest_status
    /\ UNCHANGED <<documents, metadatas, current_count, all_chunks, all_metadatas, all_ids,
                   embeddings, embed_i, ingests, embed_ok, overlapped, parked>>

\* tools.py:108-123, main.py:111: the loop is over; with no embedding the
\* method returns, otherwise it upserts; /ingest then answers success.
IngestFinish ==
    /\ ingest_pc = "embedding"
    /\ embed_i = Len(all_chunks)
    /\ collection' = IF embeddings = <<>> THEN collection
                     ELSE upsert_batches(collection, 0, Len(embeddings))
    /\ upserted' = IF embeddings = <<>> THEN {}
                   ELSE upsert_batches({}, 0, Len(embeddings))
    /\ committed' = committed \cup {collection'}
    /\ ingest_pc' = "done"
    /\ ingest_status' = "success"
    /\ UNCHANGED <<documents, metadatas, current_count, all_chunks, all_metadatas, all_ids,
                   embeddings, embed_i, ingests, embed_ok, overlapped, parked>>

\* tools.py:105, main.py:105-107: the event loop leaves the running call at
\* its await (or after its return) and runs the other /ingest call: the two
\* frames change places.
IngestSwitch ==
    /\ Frame # parked
    /\ parked' = Frame
    /\ ingest_pc' = parked.ingest_pc
    /\ documents' = parked.documents
    /\ metadatas' = parked.metadatas
    /\ current_count' = parked.current_count
    /\ all_chunks' = parked.all_chunks
    /\ all_metadatas' = parked.all_metadatas
    /\ all_ids' = parked.all_ids
    /\ embeddings' = parked.embeddings
    /\ embed_i' = parked.embed_i
    /\ ingest_status' = parked.ingest_status
    /\ embed_ok' = parked.embed_ok
    /\ upserted' = parked.upserted
    /\ overlapped' = parked.overlapped
    /\ UNCHANGED <<ingests, committed, collection>>

NextRetrieval ==
    \/ SearchStart /\ UNCHANGED <<chunkVars, argVars, synthVars, turnVars, ingestVars, visionVars>>
    \/ SearchFinish /\ UNCHANGED <<chunkVars, argVars, synthVars, turnVars, ingestVars, visionVars>>
    \/ IngestStart /\ UNCHANGED <<chunkVars, argVars, synthVars, turnVars, searchVars, visionVars>>
    \/ IngestEmbed /\ UNCHANGED <<chunkVars, argVars, synthVars, turnVars, searchVars, visionVars>>
    \/ IngestFinish /\ UNCHANGED <<chunkVars, argVars, synthVars, turnVars, searchVars, visionVars>>

\* Two /ingest calls on one event loop.
NextConcurrent ==
    \/ IngestStart /\ UNCHANGED <<chunkVars, argVars, synthVars, turnVars, searchVars, visionVars>>
    \/ IngestEmbed /\ UNCHANGED <<chunkVars, argVars, synthVars, turnVars, searchVars, visionVars>>
    \/ IngestFinish /\ UNCHANGED <<chunkVars, argVars, synthVars, turnVars, searchVars, visionVars>>
    \/ IngestSwitch /\ UNCHANGED <<chunkVars, argVars, synthVars, turnVars, searchVars, visionVars>>

----------------------------------------------------------------------------
(* VisionTool.analyze_image (tools.py:134-154).                            *)

\* The image argument: bare base64, a data URL, and text with two commas.
Images ==
    {<<"AAAA">>, <<"data:image/png;base64", "AAAA">>, <<"data:image/png;base64", "AAAA", "BB">>}

Prompts == {"q", ""}

\* The bodies followed: text that is not JSON, a JSON array, and objects with
\* no message (as an error body has), a null message, and a message object.
VisionBodies ==
    {GarbageLine, JsonLine(JList), JsonLine(JDict([message |-> Absent])),
     JsonLine(JDict([message |-> JNull]))}
    \cup {JsonLine(JDict([message |-> JDict([content |-> c])])) :
            c \in {JStr("a description"), JStr(""), JNull, Absent}}

\* What the multimodal request can come back with.
VisionResponses ==
    {[kind |-> "transport_error", status |-> 0, body |-> GarbageLine],
     [kind |-> "timeout", status |-> 0, body |-> GarbageLine]}
    \cup {[kind |-> "response", status |-> st, body |-> b] :
            st \in {200, 404, 500}, b \in VisionBodies}

NoVisionResponse == [kind |-> "none", status |-> 0, body |-> GarbageLine]

\* tools.py:136-137: the piece after the first comma, when there is a comma.
strip_data_url(image) == IF Len(image) > 1 THEN image[2] ELSE image[1]

\* tools.py:152: except Exception.
vision_catches(exc) ==
    exc \in {"ConnectError", "ReadTimeout", "JSONDecodeError", "AttributeError"}

\* tools.py:139-151: what the try block does with a response; the status is
\* not looked at.
vision_try_block(resp) ==
    IF resp.kind = "transport_error" THEN [exc |-> "ConnectError", value |-> Absent]
    ELSE IF resp.kind = "timeout" THEN [exc |-> "ReadTimeout", value |-> Absent]
    ELSE LET loaded == json_loads(resp.body)
             message == dict_get(loaded.value, "message", JDict([x \in {} |-> Absent]))
         IN IF ~loaded.ok THEN [exc |-> loaded.exc, value |-> Absent]
            ELSE IF ~has_get(loaded.value) THEN [exc |-> "AttributeError", value |-> Absent]
            ELSE IF ~has_get(message) THEN [exc |-> "AttributeError", value |-> Absent]
            ELSE [exc |-> "none", value |-> dict_get(message, "content", JStr(""))]

\* tools.py:134-154: the result of analyze_image on a response.
analyze_image(resp) ==
    LET r == vision_try_block(resp)
    IN IF r.exc = "none" THEN [raised |-> "none", value |-> r.value]
       ELSE IF vision_catches(r.exc)
            THEN [raised |-> "none", value |-> JStr("Error analyzing image.")]
       ELSE [raised |-> r.exc, value |-> Absent]

VisionIdle ==
    /\ vision_pc = "idle" /\ image_base64 = <<>> /\ prompt = "" /\ vision_sent = ""
    /\ vision_response = NoVisionResponse /\ vision_result = Absent /\ vision_exc = "none"

\* analyze_image is called with an image and a prompt.
VisionInit ==
    /\ vision_pc = "call" /\ image_base64 \in Images /\ prompt \in Prompts
    /\ vision_sent = "" /\ vision_response = NoVisionResponse /\ vision_result = Absent
    /\ vision_exc = "none"

\* tools.py:135-150: the prefix is cut off and the request is sent.
VisionCall ==
    /\ vision_pc = "call"
    /\ vision_sent' = strip_data_url(image_base64)
    /\ vision_pc' = "awaiting"
    /\ UNCHANGED <<image_base64, prompt, vision_response, vision_result, vision_exc>>

\* tools.py:139-154: the request comes back and analyze_image returns.
VisionReturn ==
    /\ vision_pc = "awaiting"
    /\ \E resp \in VisionResponses :
          LET r == analyze_image(resp)
          IN /\ vision_response' = resp
             /\ vision_result' = r.value
             /\ vision_exc' = r.raised
    /\ vision_pc' = "done"
    /\ UNCHANGED <<image_base64, prompt, vision_sent>>

NextVision ==
    \/ VisionCall /\ UNCHANGED <<chunkVars, argVars, synthVars, turnVars, retrievalVars>>
    \/ VisionReturn /\ UNCHANGED <<chunkVars, argVars, synthVars, turnVars, retrievalVars>>

----------------------------------------------------------------------------
(* Specifications: one per component, the others idle.                     *)

RetrievalIdle == collection = {} /\ SearchIdle /\ IngestIdle

InitChunk == ChunkInit /\ ArgsIdle /\ SynthIdle /\ TurnIdle /\ RetrievalIdle /\ VisionIdle

SpecChunk == InitChunk /\ [][NextChunk]_vars

InitSynth == ChunkIdle /\ SynthInit /\ TurnIdle /\ RetrievalIdle /\ VisionIdle

SpecSynth == InitSynth /\ [][NextSynth]_vars

InitTurn == ChunkIdle /\ SynthIdle /\ TurnInit /\ RetrievalIdle /\ VisionIdle

SpecTurn == InitTurn /\ [][NextTurn]_vars

SpecTurns == InitTurn /\ [][NextTurns]_vars

\* The store is empty when the process first starts.
InitRetrieval == ChunkIdle /\ ArgsIdle /\ SynthIdle /\ TurnIdle /\ RetrievalIdle /\ VisionIdle

SpecRetrieval == InitRetrieval /\ [][NextRetrieval]_vars

SpecConcurrent == InitRetrieval /\ [][NextConcurrent]_vars

InitVision == ChunkIdle /\ ArgsIdle /\ SynthIdle /\ TurnIdle /\ RetrievalIdle /\ VisionInit

SpecVision == InitVision /\ [][NextVision]_vars

----------------------------------------------------------------------------
(* Claims about _chunk_text.                                               *)

CeilDiv(a, b) == (a + b - 1) \div b

ValidChunkArgs == chunk_size > 0 /\ 0 <= overlap /\ overlap < chunk_size

\* The positions of text inside a slice that was appended as a chunk.
Covered ==
    UNION {SlicePositions(text, windows[k][1], windows[k][2]) : k \in 1..Len(windows)}

\* C1: for every text and every positive chunk_size with 0 <= overlap <
\* chunk_size the while-loop runs at most ceil(len(text) / (chunk_size - overlap))
\* iterations, len taken after newline collapsing (so the function terminates).
C1_LoopWithinBound ==
    ValidChunkArgs => iters <= CeilDiv(text_len, chunk_size - overlap)

\* C2: once _chunk_text has returned, every non-whitespace character position of
\* the newline-collapsed text lies inside a slice that was appended as a chunk.
C2_ChunksCoverText ==
    (chunk_pc = "done" /\ ValidChunkArgs) =>
        \A i \in 0..(text_len - 1) : text[i + 1] \notin Whitespace => i \in Covered

\* C3: an input of 1 to chunk_size - 1 characters whose stripped form is not
\* empty yields exactly one chunk, the stripped newline-collapsed input (the
\* claim's chunk_size 1000 and overlap 100 stand for any overlap < chunk_size).
C3_ShortInputOneChunk ==
    (/\ chunk_pc = "done"
     /\ ValidChunkArgs
     /\ 1 <= Len(input) /\ Len(input) < chunk_size
     /\ strip(collapse_newlines(input)) # <<>>)
    => chunks = <<strip(collapse_newlines(input))>>

\* C19: with a degenerate overlap >= chunk_size (chunk_size positive) every
\* iteration of the loop moves the cursor strictly forward (to end when
\* end - overlap would not advance), which is what makes the loop end.
C19_DegenerateOverlapAdvances ==
    [][(chunk_pc = "while" /\ overlap >= chunk_size /\ iters' = iters + 1) => start' > start]_vars

----------------------------------------------------------------------------
(* Claims about generate_response_stream.                                  *)

GroundedPrompt ==
    /\ system_instruction = "answer_from_context_and_cite"
    /\ final_prompt = <<"--- CONTEXT START ---", tool_output, "--- CONTEXT END ---",
                        "User Question: ", user_query>>

GenericPrompt ==
    /\ system_instruction = "helpful_and_friendly"
    /\ final_prompt = <<user_query>>

\* C7: the prompt built is the evidence-grounded one exactly when intent is
\* search or vision_qa, and the generic persona with the raw query otherwise.
C7_PromptByIntent ==
    synth_pc \in {"built", "open", "ended", "raised"} =>
        IF intent \in {"search", "vision_qa"} THEN GroundedPrompt ELSE GenericPrompt

\* A line of the documented shape: an object whose message holds a string
\* content and whose done is a boolean.
WellFormedLine(l) ==
    /\ l.raw = "json"
    /\ l.value.t = "dict"
    /\ l.value.f.message.t = "dict"
    /\ l.value.f.message.f.content.t = "str"
    /\ l.value.f.done.t = "bool"

IsCompletion(l) == WellFormedLine(l) /\ l.value.f.done.b

IncrementOf(l) == l.value.f.message.f.content.s

\* The index of the first completion line, or one past the end.
FirstDone(ls) ==
    LET dones == {i \in 1..Len(ls) : IsCompletion(ls[i])}
    IN IF dones = {} THEN Len(ls) + 1 ELSE CHOOSE i \in dones : \A j \in dones : i <= j

IsTextIncrement(l) == WellFormedLine(l) /\ IncrementOf(l) # ""

\* The non-empty increments of the well-formed lines before the first completion.
IncrementsBeforeDone(ls) ==
    LET inc == SelectSeq(SubSeq(ls, 1, FirstDone(ls) - 1), IsTextIncrement)
    IN [i \in 1..Len(inc) |-> IncrementOf(inc[i])]

StreamOpened == synth_pc \in {"open", "ended"} \/ (synth_pc = "raised" /\ lines # <<>>)

\* C8: on a stream of well-formed (or empty) lines the generator never raises,
\* has yielded exactly the non-empty increments of the lines before the first
\* completion line, in order and once each, has ended as soon as it read a
\* completion line (reading nothing after it), and ends at end-of-input too.
C8_WellFormedStream ==
    (StreamOpened /\ \A i \in 1..Len(lines) : WellFormedLine(lines[i]) \/ lines[i] = BlankLine)
    => /\ synth_pc # "raised"
       /\ yielded = IncrementsBeforeDone(lines)
       /\ (\E i \in 1..Len(lines) : IsCompletion(lines[i]))
            => (synth_pc = "ended" /\ FirstDone(lines) = Len(lines))

\* Three increments and a completion line were read and the generator ended.
C8_Witness ==
    /\ synth_pc = "ended"
    /\ Len(lines) = 4
    /\ IsCompletion(lines[4])
    /\ yielded = <<"a", "b", "a">>

\* A line that cannot be decoded as an increment: not JSON, a JSON array or
\* string, or an object whose message is null.
Undecodable(l) ==
    \/ l.raw = "garbage"
    \/ l.raw = "json" /\ l.value.t # "dict"
    \/ l.raw = "json" /\ l.value.t = "dict" /\ l.value.f.message.t = "null"

\* C9: an undecodable line never aborts the stream: the generator does not
\* raise, and the increments of the well-formed lines around it, up to the
\* completion line, are all yielded.
C9_UndecodableLineSkipped ==
    (StreamOpened /\ \A i \in 1..Len(lines) : WellFormedLine(lines[i]) \/ Undecodable(lines[i]))
    => /\ synth_pc # "raised"
       /\ yielded = IncrementsBeforeDone(lines)

\* The non-empty increments of the well-formed lines up to and including the
\* first completion line.
IncrementsThroughDone(ls) ==
    LET upto == IF FirstDone(ls) <= Len(ls) THEN FirstDone(ls) ELSE Len(ls)
        inc == SelectSeq(SubSeq(ls, 1, upto), IsTextIncrement)
    IN [i \in 1..Len(inc) |-> IncrementOf(inc[i])]

\* C22: on a stream of well-formed (or empty) lines no non-empty increment up
\* to and including the completion line is dropped: the increments yielded
\* are those of every line read, the completion line's own increment included.
C22_CompletionIncrementYielded ==
    (StreamOpened /\ \A i \in 1..Len(lines) : WellFormedLine(lines[i]) \/ lines[i] = BlankLine)
    => yielded = IncrementsThroughDone(lines)

\* C15: once the connection has been opened, no exit of the generator leaves
\* it open: after the completion line, end-of-input, an exception raised on a
\* line, the consumer stopping early and cancellation the connection is
\* released; it is open only while the generator is still running.
C15_ConnectionReleased ==
    /\ synth_pc \in {"ended", "raised", "closed", "cancelled"} => ~conn_open
    /\ conn_open => synth_pc = "open"

\* The consumer stopped after an increment and the connection was released.
C15_Witness ==
    /\ synth_pc = "closed"
    /\ yielded # <<>>
    /\ ~conn_open

----------------------------------------------------------------------------
(* Claims about analyze_query and chat_stream.                             *)

\* The responses whose content is a JSON document with an intent of the
\* enumeration: the ones that validate against QueryAnalysis.
ValidClassification(resp) ==
    /\ resp.kind = "ok"
    /\ resp.body.t = "dict"
    /\ resp.body.f.message.t = "dict"
    /\ resp.body.f.message.f.content.t = "str"
    /\ resp.body.f.message.f.content.isjson
    /\ resp.body.f.message.f.content.doc.intent.has
    /\ resp.body.f.message.f.content.doc.intent.v \in IntentValues

ClassifiedDoc == llm_response.body.f.message.f.content.doc

\* C4: whatever the classification request comes back with, analyze_query
\* returns a QueryAnalysis to chat_stream (no exception of its own reaches the
\* handler): the document's analysis, with an intent of the enumeration, when
\* the response validates, and intent chitchat with no entities otherwise.
C4_AnalyzeQueryNeverRaises ==
    llm_response # NoResponse =>
        /\ analysis # NoAnalysis
        /\ turn_exc \in {"none", "AttributeError"}
        /\ IF ValidClassification(llm_response)
           THEN /\ analysis.intent = ClassifiedDoc.intent.v
                /\ analysis.intent \in IntentValues
                /\ analysis.key_entities =
                     (IF ClassifiedDoc.key_entities.has THEN ClassifiedDoc.key_entities.v
                      ELSE <<>>)
           ELSE /\ analysis.intent = "chitchat"
                /\ analysis.key_entities = <<>>

\* The classification content was not JSON and the fallback was returned.
C4_Witness ==
    /\ llm_response =
         [kind |-> "ok", body |-> JDict([message |-> JDict([content |-> NonJsonText])])]
    /\ analysis = FallbackAnalysis
    /\ turn_pc = "reasoned"

\* C5: a turn with image input has intent vision_qa, issued no classification
\* request, ran the vision tool and reached synthesis (status 200, generator
\* created) instead of ending in an error.
C5_ImageTurnRunsVision ==
    (turn_pc = "done" /\ image_truthy(image_data)) =>
        /\ intent = "vision_qa"
        /\ llm_calls = 0
        /\ tool_calls = <<"analyze_image">>
        /\ http_status = 200
        /\ synth_pc = "call"

\* C6: a finished turn invoked at most one tool, the one its intent selects:
\* search ran only search, vision_qa only analyze_image, and chitchat,
\* summarize and calculate ran no tool and passed the empty string to synthesis.
C6_OneToolByIntent ==
    (turn_pc = "done" /\ intent # "none") =>
        /\ Len(tool_calls) <= 1
        /\ intent = "search" => tool_calls = <<"search">>
        /\ intent = "vision_qa" => tool_calls = <<"analyze_image">>
        /\ intent \in {"chitchat", "summarize", "calculate"} =>
              (tool_calls = <<>> /\ synth_pc = "call" /\ tool_output = "")

\* An exception left a component the turn called: the classification call or
\* the response generator (no tool call is ever reached to raise one).
ComponentRaised ==
    \/ llm_calls > 0 /\ analyze_query(llm_response).raised # "none"
    \/ synth_exc # "none"

\* The classification request failed and analyze_query fell back by itself.
ClassificationHandledLocally ==
    /\ llm_calls > 0
    /\ try_block_raises(llm_response) # "none"
    /\ analyze_query(llm_response).raised = "none"

\* C16: a finished turn was answered with status 500 exactly when an
\* exception left a component during its sequencing; a failure a component
\* handled by itself (here the classification fallback) did not give 500.
C16_ServerErrorIffComponentRaised ==
    turn_pc = "done" =>
        /\ http_status = 500 <=> ComponentRaised
        /\ (ClassificationHandledLocally /\ ~ComponentRaised) => http_status # 500

----------------------------------------------------------------------------
(* Claims about search.                                                    *)

ErrorString == <<"Error generating embeddings.">>

NoInfoString == <<"No relevant info found in knowledge base.">>

\* The parts of a formatted result that open a block.
ResultBlocks(result) == {i \in 1..Len(result) : result[i] = "[Result "}

\* C10: a search that has returned raised nothing and returned a string; when
\* the embedding request gave no vector (any failure, or an empty vector) the
\* string is the fixed error string and the index was not queried; when the
\* embedding succeeded and the index returned no documents, as it does when
\* it holds none, the string is the fixed no-relevant-info string; and the
\* string is formatted results, one block per document, in the remaining case
\* and only then.
C10_SearchReturnsString ==
    search_pc = "done" =>
        /\ search_exc = "none"
        /\ search_result # <<>>
        /\ search_embed # "ok" => (search_result = ErrorString /\ ~search_queried)
        /\ (search_embed = "ok" /\ search_hits = <<>>) => search_result = NoInfoString
        /\ (search_embed = "ok" /\ search_seen = 0) => search_result = NoInfoString
        /\ (search_embed = "ok" /\ search_hits # <<>>) =>
              /\ search_queried
              /\ search_result \notin {ErrorString, NoInfoString}
              /\ Cardinality(ResultBlocks(search_result)) = Len(search_hits)
        /\ search_result \notin {ErrorString, NoInfoString} =>
              (search_embed = "ok" /\ search_hits # <<>>)

\* The embedding request failed in transport while the index held documents:
\* the error string came back and the index was not queried.
C10_Witness ==
    /\ search_pc = "done"
    /\ search_embed = "transport_error"
    /\ collection # {}
    /\ search_result = ErrorString
    /\ ~search_queried

\* The source a block must name for a stored entry.
Attribution(e) ==
    IF e.metadata.has_keys /\ e.metadata.source.has THEN e.metadata.source.v ELSE "Unknown"

\* Part p (1..6) of block i of a result of blocks joined by blank lines.
BlockPart(result, i, p) == result[7 * (i - 1) + p]

\* C11: when the index returned k >= 1 results, in ascending distance from
\* the query's vector, the string returned is exactly k blocks joined by blank
\* lines; block i is numbered i, names the source of the i-th result (Unknown
\* when its metadata has none) and holds the i-th result's text.
C11_BlocksInIndexOrder ==
    (search_pc = "done" /\ search_hits # <<>>) =>
        LET k == Len(search_hits)
        IN /\ \A i, j \in 1..k : i < j =>
                 distance(embedding_of(query), search_hits[i].embedding)
                    <= distance(embedding_of(query), search_hits[j].embedding)
           /\ Len(search_result) = 7 * k - 1
           /\ \A i \in 1..(k - 1) : search_result[7 * i] = "\n\n"
           /\ \A i \in 1..k :
                 /\ BlockPart(search_result, i, 1) = "[Result "
                 /\ BlockPart(search_result, i, 2) = ToString(i)
                 /\ BlockPart(search_result, i, 3) = "] (Source: "
                 /\ BlockPart(search_result, i, 4) = Attribution(search_hits[i])
                 /\ BlockPart(search_result, i, 5) = "):\n"
                 /\ BlockPart(search_result, i, 6) = search_hits[i].document

\* Results with a source and without one came back, the nearest first.
C11_Witness ==
    /\ search_pc = "done"
    /\ Len(search_hits) >= 2
    /\ distance(embedding_of(query), search_hits[1].embedding) = 0
    /\ \E i, j \in 1..Len(search_hits) :
          /\ Attribution(search_hits[i]) = "Unknown"
          /\ Attribution(search_hits[j]) \in {"A", "B"}

----------------------------------------------------------------------------
(* Claims about add_documents.                                             *)

\* The entry a chunk of the running ingest stands for: its own id, its own
\* text, the embedding of that text and the metadata of its document.
OwnEntry(i) ==
    [id |-> all_ids[i], document |-> all_chunks[i],
     embedding |-> embedding_of(all_chunks[i]), metadata |-> all_metadatas[i]]

EmbeddedChunks == {i \in 1..Len(embed_ok) : embed_ok[i]}

\* C12: an ingest that has returned upserted exactly the chunks whose
\* embedding succeeded, each as its own id, text, embedding and document
\* metadata, whatever the pattern of embedding successes and failures.
C12_UpsertPairsOwnData ==
    (ingest_pc = "done" /\ ingest_status = "success") =>
        upserted = {OwnEntry(i) : i \in EmbeddedChunks}

\* C13: an ingest that has returned with no chunk embedded (no chunks at
\* all, or every embedding failed) upserted nothing and answered its caller
\* with a failure, not with success.
C13_NothingEmbeddedReportsFailure ==
    (ingest_pc = "done" /\ EmbeddedChunks = {}) =>
        (upserted = {} /\ ingest_status # "success")

\* C14: with ingests running one after another, the upsert of an ingest
\* writes no id the index already holds, so it replaces no chunk an earlier
\* ingest stored.
C14_SequentialIdsUnique ==
    [][(ingest_pc = "embedding" /\ ingest_pc' = "done") =>
          \A e \in collection : \A u \in upserted' : u.id # e.id]_vars

----------------------------------------------------------------------------
(* Claims about analyze_image.                                             *)

\* The body is the expected JSON: an object whose message holds a string.
ExpectedVisionBody(b) ==
    /\ b.raw = "json"
    /\ b.value.t = "dict"
    /\ b.value.f.message.t = "dict"
    /\ b.value.f.message.f.content.t = "str"

\* The multimodal call failed: no response, a status outside 2xx, or a body
\* that is not the expected JSON.
VisionCallFailed(resp) ==
    \/ resp.kind \in {"transport_error", "timeout"}
    \/ resp.status < 200 \/ resp.status > 299
    \/ ~ExpectedVisionBody(resp.body)

\* C17: analyze_image has raised nothing, and on every failure of the
\* multimodal call it has returned the fixed error string.
C17_VisionFailureGivesErrorString ==
    vision_pc = "done" =>
        /\ vision_exc = "none"
        /\ VisionCallFailed(vision_response) => vision_result = JStr("Error analyzing image.")

----------------------------------------------------------------------------
(* Claims about ingest followed by search.                                 *)

\* The last ingest has returned with every embedding successful, one of its
\* documents is the single chunk q with a source in its metadata (document d
\* of the call), and the search for q queried the index after that ingest
\* and before any other began.
IngestedThenSearched(d) ==
    /\ ingest_pc = "done"
    /\ \A i \in 1..Len(embed_ok) : embed_ok[i]
    /\ Len(embed_ok) = Len(all_chunks)
    /\ d \in 1..Len(documents)
    /\ documents[d] = <<query>>
    /\ meta_of(metadatas, d - 1).source.has
    /\ search_pc = "done"
    /\ search_embed = "ok"
    /\ search_at = <<ingests, "done">>

\* The source the first block of the result names.
FirstSource == search_result[4]

NoSameTextElsewhere(d) ==
    \A e \in collection : e.document = query => e.metadata = meta_of(metadatas, d - 1)

----------------------------------------------------------------------------
(* Claims about concurrent ingests.                                        *)

\* Both add_documents calls have returned after upserting, and they had
\* read the same count and given their first chunk the same id.
BothUpsertedSameId ==
    /\ ingest_pc = "done" /\ parked.ingest_pc = "done"
    /\ upserted # {} /\ parked.upserted # {}
    /\ current_count = parked.current_count
    /\ all_ids[1] = parked.all_ids[1]

\* An entry an ingest upserted is no longer in the index.
LostChunks(f) == {u \in f.upserted : u \notin collection}

\* C20: nothing separates the count read from the upsert, so two ingests can
\* read the same count and assign the same id; the index then holds one
\* entry under that id, and of two different entries upserted under it the
\* earlier has been replaced: an ingest that answered success has lost it.
C20_SameIdKeepsOneEntry ==
    BothUpsertedSameId =>
        /\ Cardinality({e \in collection : e.id = all_ids[1]}) = 1
        /\ \A u \in upserted : \A v \in parked.upserted :
              (u.id = v.id /\ u # v) =>
                 /\ ~(u \in collection /\ v \in collection)
                 /\ LostChunks(Frame) \cup LostChunks(parked) # {}

\* Two ingests were in flight together, read the same count and assigned the
\* same id; both answered success, and the chunk of the one that upserted
\* first is gone from the index.
C20_Witness ==
    /\ BothUpsertedSameId
    /\ overlapped \/ parked.overlapped
    /\ ingest_status = "success" /\ parked.ingest_status = "success"
    /\ LostChunks(parked) # {}
    /\ LostChunks(Frame) = {}

----------------------------------------------------------------------------
(* Claims about a search while an ingest is in flight.                     *)

----------------------------------------------------------------------------
(* Claims about the stages of a turn with another turn in flight.          *)

\* The chat_stream call that is running.
CurrentTurn ==
    TurnFrame(turn_pc, image_data, user_query, chat_history, intent, tool_output,
              analysis, llm_response, llm_calls, tool_calls, http_status, turn_exc,
              synth_pc)

\* The classification of the call f has come back (with image input there is
\* no classification call to wait for).
ClassificationCompleted(f) ==
    /\ f.turn_pc \in {"reasoned", "done"}
    /\ f.intent # "none"
    /\ image_truthy(f.image_data) \/ (f.llm_calls = 1 /\ f.llm_response # NoResponse)

\* The tool output the synthesis request of the call f is built from is the
\* one its tool phase produced.
ToolOutputCaptured(f) ==
    /\ f.turn_pc = "done" /\ f.http_status = 200
    /\ Len(f.tool_calls) <= 1
    /\ f.tool_calls = <<"search">> => f.tool_output \in SearchReturns
    /\ f.tool_calls = <<"analyze_image">> => f.tool_output \in VisionReturns
    /\ f.tool_calls = <<>> => f.tool_output \in {"", "Calculator tool not yet implemented."}

StagesInOrder(f) ==
    /\ f.llm_calls <= 1
    /\ f.turn_pc \in {"idle", "start"} =>
          f.llm_calls = 0 /\ f.tool_calls = <<>> /\ f.synth_pc = "idle"
    /\ f.tool_calls # <<>> => ClassificationCompleted(f)
    /\ f.synth_pc # "idle" => ClassificationCompleted(f) /\ ToolOutputCaptured(f)

----------------------------------------------------------------------------
(* Claims about what a turn takes from its QueryAnalysis.                  *)

\* Two finished chat_stream calls with the same request (query, history and
\* presence of an image) whose classification gave the same intent.
SameRequestAndIntent(f, g) ==
    /\ f.turn_pc = "done" /\ g.turn_pc = "done"
    /\ f.user_query = g.user_query /\ f.chat_history = g.chat_history
    /\ image_truthy(f.image_data) = image_truthy(g.image_data)
    /\ f.analysis.intent = g.analysis.intent

\* The same tool call, the same synthesis request (made or not, with the same
\* intent argument; query and history are the request's) and the same answer.
SameToolAndSynthesis(f, g) ==
    /\ f.tool_calls = g.tool_calls
    /\ f.synth_pc = g.synth_pc
    /\ f.intent = g.intent
    /\ f.http_status = g.http_status /\ f.turn_exc = g.turn_exc

====
